---------------------------- MODULE Spec2Model ----------------------------
(***************************************************************************)
(* Model of the documentation/source-retrieval gateway of                  *)
(* gaddario98/mcp-react-docs.  Two server variants are modelled side by    *)
(* side: the local-filesystem variant (definitions prefixed L_) and the    *)
(* remote GitHub variant (definitions prefixed R_).  Texts are TLA+        *)
(* strings, handled character by character the way the code handles them.  *)
(***************************************************************************)
EXTENDS Integers, Sequences, FiniteSets

(***************************************************************************)
(* Bounds of the model.                                                    *)
(***************************************************************************)
MaxResultsBound == 2

(***************************************************************************)
(* JavaScript values that are not strings.                                 *)
(***************************************************************************)
NULL == "<null>"
UNDEFINED == "<undefined>"

Falsy(x) == x = NULL \/ x = UNDEFINED \/ x = ""

(***************************************************************************)
(* String primitives (String.prototype).                                   *)
(***************************************************************************)
Char(s, i) == SubSeq(s, i, i)

StartsWith(s, p) == Len(p) <= Len(s) /\ SubSeq(s, 1, Len(p)) = p

EndsWith(s, p) == Len(p) <= Len(s) /\ SubSeq(s, Len(s) - Len(p) + 1, Len(s)) = p

Includes(s, sub) ==
    \E i \in 1..(Len(s) - Len(sub) + 1) : SubSeq(s, i, i + Len(sub) - 1) = sub

\* Index of the last occurrence of the one-character string c in s, 0 if none.
LastIndexOf(s, c) ==
    IF \A i \in 1..Len(s) : Char(s, i) # c THEN 0
    ELSE CHOOSE i \in 1..Len(s) :
             Char(s, i) = c /\ \A j \in (i + 1)..Len(s) : Char(s, j) # c

\* Index of the first occurrence of c in s at or after from, 0 if none.
IndexOfFrom(s, c, from) ==
    IF \A i \in from..Len(s) : Char(s, i) # c THEN 0
    ELSE CHOOSE i \in from..Len(s) :
             Char(s, i) = c /\ \A j \in from..(i - 1) : Char(s, j) # c

\* s.split(sep) for a one-character separator: always at least one piece.
RECURSIVE Split(_, _)
SplitAt(s, sep, k) ==
    IF k = 0 THEN <<s>>
    ELSE <<SubSeq(s, 1, k - 1)>> \o Split(SubSeq(s, k + 1, Len(s)), sep)

Split(s, sep) == SplitAt(s, sep, IndexOfFrom(s, sep, 1))

\* pieces.join(sep)
RECURSIVE JoinStr(_, _)
JoinStr(pieces, sep) ==
    IF Len(pieces) = 0 THEN ""
    ELSE IF Len(pieces) = 1 THEN pieces[1]
    ELSE pieces[1] \o sep \o JoinStr(Tail(pieces), sep)

WhiteSpace == {" ", "\t", "\r", "\n"}

\* s.trim()
RECURSIVE TrimLeft(_)
TrimLeft(s) ==
    IF Len(s) > 0 /\ Char(s, 1) \in WhiteSpace THEN TrimLeft(SubSeq(s, 2, Len(s))) ELSE s

RECURSIVE TrimRight(_)
TrimRight(s) ==
    IF Len(s) > 0 /\ Char(s, Len(s)) \in WhiteSpace
    THEN TrimRight(SubSeq(s, 1, Len(s) - 1)) ELSE s

Trim(s) == TrimRight(TrimLeft(s))

\* Array.prototype.filter: the elements of seq that Keep accepts, in order.
Filter(seq, Keep(_)) ==
    LET F[i \in 0..Len(seq)] ==
            IF i = 0 THEN <<>>
            ELSE IF Keep(seq[i]) THEN Append(F[i - 1], seq[i]) ELSE F[i - 1]
    IN  F[Len(seq)]

Range(seq) == {seq[i] : i \in 1..Len(seq)}

(***************************************************************************)
(* node:path for absolute POSIX paths.                                     *)
(***************************************************************************)
\* Resolve "." and ".." segments and drop empty ones, left to right.
RECURSIVE NormSegs(_, _)
NormSegs(segs, acc) ==
    IF Len(segs) = 0 THEN acc
    ELSE LET h == Head(segs)
         IN  IF h = "" \/ h = "." THEN NormSegs(Tail(segs), acc)
             ELSE IF h = ".."
                  THEN NormSegs(Tail(segs),
                                IF Len(acc) = 0 THEN acc ELSE SubSeq(acc, 1, Len(acc) - 1))
                  ELSE NormSegs(Tail(segs), Append(acc, h))

\* The text of the normalized segments; a trailing slash is kept.
FromSegs(segs, trailing) ==
    "/" \o JoinStr(segs, "/") \o (IF Len(segs) > 0 /\ trailing THEN "/" ELSE "")

\* path.normalize of an absolute path.
Normalize(p) == FromSegs(NormSegs(Split(p, "/"), <<>>), EndsWith(p, "/"))

\* path.join(a, b) with a absolute: concatenate with "/" and normalize.
join(a, b) == Normalize(IF Len(b) = 0 THEN a ELSE a \o "/" \o b)

\* path.relative(from, to); every call site passes a `to` at or below `from`.
relative(from, to) ==
    IF to = from THEN ""
    ELSE IF StartsWith(to, from \o "/") THEN SubSeq(to, Len(from) + 2, Len(to))
    ELSE to

\* Last path component.
basename(p) == SubSeq(p, LastIndexOf(p, "/") + 1, Len(p))

\* Parent directory of a normalized absolute path.
DirAt(p, k) == IF k <= 1 THEN "/" ELSE SubSeq(p, 1, k - 1)

dirname(p) == DirAt(p, LastIndexOf(p, "/"))

\* path.extname: from the last "." of the basename; "" when there is no "."
\* or the only "." is the first character of the basename.
ExtAt(b, k) == IF k <= 1 \/ b = ".." THEN "" ELSE SubSeq(b, k, Len(b))

ExtOfName(b) == ExtAt(b, LastIndexOf(b, "."))

extname(p) == ExtOfName(basename(p))

(***************************************************************************)
(* Package registries.                                                     *)
(***************************************************************************)
PACKAGES_ROOT == "/ws/react-base-core"

NAMESPACE_PREFIX == "@gaddario98/"

\* The paths are those path.join computes from PACKAGES_ROOT.
L_PACKAGES ==
    << [id |-> "react-core", name |-> "@gaddario98/react-core",
        description |-> "Modular, type-safe React framework: state, forms, queries, pages, localization, auth, notifications",
        dir |-> "/ws/react-base-core",
        readmePath |-> "/ws/react-base-core/README.md",
        typesPath |-> NULL,
        github |-> "https://github.com/gaddario98/react-core"],
       [id |-> "react-form", name |-> "@gaddario98/react-form",
        description |-> "Dynamic, type-safe form builder on TanStack React Form with Jotai state",
        dir |-> "/ws/react-base-core/form",
        readmePath |-> "/ws/react-base-core/form/README.md",
        typesPath |-> "/ws/react-base-core/form/types.ts",
        github |-> "https://github.com/gaddario98/react-form"],
       [id |-> "react-queries", name |-> "@gaddario98/react-queries",
        description |-> "Unified data fetching layer on TanStack Query + Jotai: queries, mutations, WebSockets",
        dir |-> "/ws/react-base-core/queries",
        readmePath |-> "/ws/react-base-core/queries/README.md",
        typesPath |-> "/ws/react-base-core/queries/types.ts",
        github |-> "https://github.com/gaddario98/react-queries"],
       [id |-> "react-pages", name |-> "@gaddario98/react-pages",
        description |-> "Page orchestrator: forms + queries + SEO + lazy loading + cross-platform",
        dir |-> "/ws/react-base-core/pages",
        readmePath |-> "/ws/react-base-core/pages/README.md",
        typesPath |-> "/ws/react-base-core/pages/types.ts",
        github |-> "https://github.com/gaddario98/react-pages"] >>

R_PACKAGES ==
    << [id |-> "react-core", name |-> "@gaddario98/react-core",
        description |-> "Modular, type-safe React framework: state, forms, queries, pages, localization, auth, notifications",
        repo |-> "gaddario98/react-core", branch |-> "master", basePath |-> "",
        readmePath |-> "README.md", typesPath |-> NULL,
        github |-> "https://github.com/gaddario98/react-core"],
       [id |-> "react-form", name |-> "@gaddario98/react-form",
        description |-> "Dynamic, type-safe form builder on TanStack React Form with Jotai state",
        repo |-> "gaddario98/react-base-form", branch |-> "master", basePath |-> "",
        readmePath |-> "README.md", typesPath |-> "types.ts",
        github |-> "https://github.com/gaddario98/react-base-form"],
       [id |-> "react-queries", name |-> "@gaddario98/react-queries",
        description |-> "Unified data fetching layer on TanStack Query + Jotai: queries, mutations, WebSockets",
        repo |-> "gaddario98/react-base-queries", branch |-> "master", basePath |-> "",
        readmePath |-> "README.md", typesPath |-> "types.ts",
        github |-> "https://github.com/gaddario98/react-base-queries"],
       [id |-> "react-pages", name |-> "@gaddario98/react-pages",
        description |-> "Page orchestrator: forms + queries + SEO + lazy loading + cross-platform",
        repo |-> "gaddario98/react-base-pages", branch |-> "master", basePath |-> "",
        readmePath |-> "README.md", typesPath |-> "types.ts",
        github |-> "https://github.com/gaddario98/react-base-pages"] >>

\* id.replace(/^@gaddario98\//, "")
StripNamespace(id) ==
    IF StartsWith(id, NAMESPACE_PREFIX)
    THEN SubSeq(id, Len(NAMESPACE_PREFIX) + 1, Len(id)) ELSE id

\* PackageMatches that compares the identifier with the id only.
PackageMatches_IdOnly(p, id) == p.id = id

\* The predicate of PACKAGES.find in findPackage.
PackageMatches(p, id) == p.id = id \/ p.name = id \/ p.id = StripNamespace(id)

\* Array.prototype.find: the index of the first matching element, 0 when
\* there is none (the code's undefined).
FindIn(pkgs, id) ==
    LET hits == {i \in 1..Len(pkgs) : PackageMatches(pkgs[i], id)}
    IN  IF hits = {} THEN 0 ELSE CHOOSE i \in hits : \A j \in hits : i <= j

L_findPackage(id) == FindIn(L_PACKAGES, id)

R_findPackage(id) == FindIn(R_PACKAGES, id)

\* PACKAGES.map((p) => p.id).join(", ")
L_AvailableIds == JoinStr([i \in 1..Len(L_PACKAGES) |-> L_PACKAGES[i].id], ", ")

R_AvailableIds == JoinStr([i \in 1..Len(R_PACKAGES) |-> R_PACKAGES[i].id], ", ")

(***************************************************************************)
(* The content source.  A file tree is a sequence of nodes in directory    *)
(* order; the local variant reads it through node:fs, the remote host      *)
(* serves each package's repository from the same tree.                    *)
(***************************************************************************)
File(p, c) == [path |-> p, kind |-> "file", readable |-> TRUE, content |-> c]

Dir(p) == [path |-> p, kind |-> "dir", readable |-> TRUE, content |-> ""]

MANIFEST_PATH == "/ws/react-base-core/package.json"

BaseTree ==
    << Dir("/ws/react-base-core"),
       File("/ws/react-base-core/README.md", "# react-core"),
       File("/ws/react-base-core/package.json", "{\"name\":\"core\",\"version\":\"1.2.3\"}"),
       File("/ws/react-base-core/index.ts", "export { useForm } from './form'"),
       Dir("/ws/react-base-core/form"),
       File("/ws/react-base-core/form/README.md", "# react-form\nuseForm(a)"),
       File("/ws/react-base-core/form/types.ts", "export type A = a.b\n  type F = A(\n"),
       Dir("/ws/react-base-core/form/hooks"),
       File("/ws/react-base-core/form/hooks/useForm.tsx", " useForm(a) \nlet b = a*a(\nab(c)"),
       Dir("/ws/react-base-core/form/dist"),
       File("/ws/react-base-core/form/dist/out.js", "a("),
       File("/ws/react-base-core/form/.ts", "a("),
       File("/ws/react-base-core/form/notes.md", "a("),
       Dir("/ws/react-base-core/form-evil"),
       File("/ws/react-base-core/form-evil/x.ts", "secret"),
       Dir("/ws/react-base-core/queries"),
       File("/ws/react-base-core/queries/README.md", "# react-queries"),
       File("/ws/react-base-core/queries/types.ts", "export type Q = a("),
       Dir("/ws/react-base-core/pages"),
       File("/ws/react-base-core/pages/README.md", "# react-pages"),
       File("/ws/react-base-core/pages/types.ts", "export type P = useForm"),
       Dir("/etc"),
       File("/etc/passwd", "root:x:0:0") >>

\* Index of the node at path p in tree t, 0 if there is none.
NodeAt(t, p) ==
    LET hits == {i \in 1..Len(t) : t[i].path = p}
    IN  IF hits = {} THEN 0 ELSE CHOOSE i \in hits : TRUE

StripSlash(p) == IF Len(p) > 1 /\ EndsWith(p, "/") THEN SubSeq(p, 1, Len(p) - 1) ELSE p

\* fs.existsSync: a path with a trailing slash exists only as a directory.
existsSync(t, p) ==
    LET i == NodeAt(t, StripSlash(p))
    IN  i # 0 /\ (EndsWith(p, "/") => t[i].kind = "dir")

\* fs.readFileSync(p, "utf-8"): ok with the text, or a throw (ENOENT, EISDIR, EACCES).
readFileSync(t, p) ==
    LET i == NodeAt(t, p)
    IN  IF i # 0 /\ t[i].kind = "file" /\ t[i].readable
        THEN [ok |-> TRUE, text |-> t[i].content]
        ELSE [ok |-> FALSE, text |-> ""]

\* fs.readdirSync(dir, {withFileTypes: true}): the entries of dir in directory
\* order, or a throw (ENOENT, ENOTDIR, EACCES).
readdirSync(t, dir) ==
    LET i == NodeAt(t, dir)
    IN  IF i # 0 /\ t[i].kind = "dir" /\ t[i].readable
        THEN [ok |-> TRUE,
              entries |-> Filter(t, LAMBDA n : n.path # "/" /\ n.path # dir /\ dirname(n.path) = dir)]
        ELSE [ok |-> FALSE, entries |-> <<>>]

\* readFileSafe: the text, or the error message as an ordinary string.
readFileSafe(t, p) ==
    LET r == readFileSync(t, p)
    IN  IF r.ok THEN r.text ELSE "Error: file not found at " \o p

(***************************************************************************)
(* Listing of source files (local variant).                                *)
(***************************************************************************)
IGNORE == {"node_modules", "dist", ".git", ".github", ".claude"}

EXTENSIONS == {".ts", ".tsx", ".js", ".jsx"}

\* collectSourceFiles(dir, base): ok with the relative paths in discovery
\* order, or not ok when readdirSync threw; io is the sequence of file-system
\* calls made.
RECURSIVE collectSourceFiles(_, _, _)
RECURSIVE CollectEntries(_, _, _, _)
CollectEntries(t, entries, base, acc) ==
    IF Len(entries) = 0 \/ ~acc.ok THEN acc
    ELSE LET entry == Head(entries)
             name == basename(entry.path)
             fullPath == entry.path
         IN  IF name \in IGNORE THEN CollectEntries(t, Tail(entries), base, acc)
             ELSE IF entry.kind = "dir"
             THEN LET sub == collectSourceFiles(t, fullPath, base)
                  IN  CollectEntries(t, Tail(entries), base,
                          [ok |-> sub.ok, files |-> acc.files \o sub.files,
                           io |-> acc.io \o sub.io])
             ELSE IF extname(name) \in EXTENSIONS
             THEN CollectEntries(t, Tail(entries), base,
                      [acc EXCEPT !.files = Append(@, relative(base, fullPath))])
             ELSE CollectEntries(t, Tail(entries), base, acc)

collectSourceFiles(t, dir, base) ==
    IF ~existsSync(t, dir)
    THEN [ok |-> TRUE, files |-> <<>>, io |-> << <<"existsSync", dir>> >>]
    ELSE LET rd == readdirSync(t, dir)
             io0 == << <<"existsSync", dir>>, <<"readdirSync", dir>> >>
         IN  IF ~rd.ok THEN [ok |-> FALSE, files |-> <<>>, io |-> io0]
             ELSE CollectEntries(t, rd.entries, base,
                                 [ok |-> TRUE, files |-> <<>>, io |-> io0])

(***************************************************************************)
(* Regular expressions: the part of the RegExp pattern language the model  *)
(* draws patterns from.  Atoms are a literal character, ".", an escaped    *)
(* character and a group "(...)"; the one quantifier is "*".  A pattern is  *)
(* compiled to a sequence of nodes and matched by backtracking in the      *)
(* priority order of the language (greedy "*").                            *)
(***************************************************************************)
\* The characters pattern.replace(/[.*+?^${}()|[\]\\]/g, "\\$&") escapes.
ESCAPED_CHARS == {".", "*", "+", "?", "^", "$", "{", "}", "(", ")", "|", "[", "]", "\\"}

RECURSIVE ParseSeq(_, _, _)
\* A group whose body was parsed as inner, opened at index i.
ParseGroup(p, i, inner) ==
    IF inner.ok /\ inner.next <= Len(p)
    THEN [ok |-> TRUE, next |-> inner.next + 1, node |-> <<"group", inner.nodes>>]
    ELSE [ok |-> FALSE, next |-> i, node |-> <<"err">>]

\* The atom that starts with character c at index i.
ParseAtom(p, i, c) ==
    IF c = "*" THEN [ok |-> FALSE, next |-> i, node |-> <<"err">>]
    ELSE IF c = "\\"
    THEN IF i = Len(p) THEN [ok |-> FALSE, next |-> i, node |-> <<"err">>]
         ELSE [ok |-> TRUE, next |-> i + 2, node |-> <<"char", Char(p, i + 1)>>]
    ELSE IF c = "(" THEN ParseGroup(p, i, ParseSeq(p, i + 1, <<>>))
    ELSE IF c = "." THEN [ok |-> TRUE, next |-> i + 1, node |-> <<"any">>]
    ELSE [ok |-> TRUE, next |-> i + 1, node |-> <<"char", c>>]

\* The term made of atom and the "*" that may follow it, then the rest.
ParseTerm(p, i, acc, atom) ==
    IF ~atom.ok THEN [ok |-> FALSE, next |-> i, nodes |-> acc]
    ELSE IF atom.next <= Len(p) /\ Char(p, atom.next) = "*"
    THEN ParseSeq(p, atom.next + 1, Append(acc, <<"star", atom.node>>))
    ELSE ParseSeq(p, atom.next, Append(acc, atom.node))

\* Parses terms of p from index i up to the end of p or an unconsumed ")".
ParseSeq(p, i, acc) ==
    IF i > Len(p) \/ Char(p, i) = ")" THEN [ok |-> TRUE, next |-> i, nodes |-> acc]
    ELSE ParseTerm(p, i, acc, ParseAtom(p, i, Char(p, i)))

\* The outcome of the constructor given the parse r of the whole pattern.
Compiled(pattern, r) ==
    IF r.ok /\ r.next = Len(pattern) + 1
    THEN [ok |-> TRUE, nodes |-> r.nodes]
    ELSE [ok |-> FALSE, nodes |-> <<>>]

\* new RegExp(pattern, "gi"): ok with the compiled nodes, or a SyntaxError
\* (unterminated group, unmatched ")", nothing to repeat, "\" at end of pattern).
NewRegExp(pattern) == Compiled(pattern, ParseSeq(pattern, 1, <<>>))

UpperCase == <<"A", "B", "C", "D", "E", "F", "G", "H", "I", "J", "K", "L", "M",
               "N", "O", "P", "Q", "R", "S", "T", "U", "V", "W", "X", "Y", "Z">>

LowerCase == <<"a", "b", "c", "d", "e", "f", "g", "h", "i", "j", "k", "l", "m",
               "n", "o", "p", "q", "r", "s", "t", "u", "v", "w", "x", "y", "z">>

\* Case folding of one character under the "i" flag.
Canonicalize(c) ==
    LET hits == {k \in 1..26 : UpperCase[k] = c}
    IN  IF hits = {} THEN c ELSE LowerCase[CHOOSE k \in hits : TRUE]

LineTerminators == {"\n", "\r"}

RECURSIVE Flatten(_)
Flatten(seqs) == IF Len(seqs) = 0 THEN <<>> ELSE Head(seqs) \o Flatten(Tail(seqs))

RECURSIVE MatchNode(_, _, _)
RECURSIVE MatchSeq(_, _, _, _)
RECURSIVE MatchRest(_, _, _, _, _)
RECURSIVE MatchMore(_, _, _, _, _)
\* The positions at which a match of node starting at pos can end, best first.
MatchNode(node, line, pos) ==
    IF node[1] = "char"
    THEN IF pos <= Len(line) /\ Canonicalize(Char(line, pos)) = Canonicalize(node[2])
         THEN <<pos + 1>> ELSE <<>>
    ELSE IF node[1] = "any"
    THEN IF pos <= Len(line) /\ Char(line, pos) \notin LineTerminators
         THEN <<pos + 1>> ELSE <<>>
    ELSE IF node[1] = "group" THEN MatchSeq(node[2], 1, line, pos)
    ELSE \* "star": one more iteration first (greedy), then stopping here
         MatchMore(node, line, MatchNode(node[2], line, pos), 1, pos) \o <<pos>>

\* The ends of a starred node after one more iteration that ended at one of
\* ends[j..]; an iteration that consumed nothing is rejected.
MatchMore(node, line, ends, j, pos) ==
    IF j > Len(ends) THEN <<>>
    ELSE (IF ends[j] > pos THEN MatchNode(node, line, ends[j]) ELSE <<>>)
         \o MatchMore(node, line, ends, j + 1, pos)

\* The ends of nodes[k..] started at each of ends[j..].
MatchRest(nodes, k, line, ends, j) ==
    IF j > Len(ends) THEN <<>>
    ELSE MatchSeq(nodes, k, line, ends[j]) \o MatchRest(nodes, k, line, ends, j + 1)

MatchSeq(nodes, k, line, pos) ==
    IF k > Len(nodes) THEN <<pos>>
    ELSE MatchRest(nodes, k + 1, line, MatchNode(nodes[k], line, pos), 1)

RECURSIVE ExecFrom(_, _, _)
\* The outcome of the attempt at start s whose possible ends are ends.
ExecAt(nodes, line, s, ends) ==
    IF Len(ends) > 0 THEN [found |-> TRUE, lastIndex |-> ends[1] - 1]
    ELSE ExecFrom(nodes, line, s + 1)

\* The leftmost match of nodes in line starting at index s or later.
ExecFrom(nodes, line, s) ==
    IF s > Len(line) + 1 THEN [found |-> FALSE, lastIndex |-> 0]
    ELSE ExecAt(nodes, line, s, MatchSeq(nodes, 1, line, s))

\* regex.test(line) of a global regex: searches from lastIndex (0-based); a
\* match leaves lastIndex at its end, a failure resets lastIndex to 0.
RegexTest(nodes, line, lastIndex) == ExecFrom(nodes, line, lastIndex + 1)

\* EscapeRegExp with the parentheses missing from the character class.
RECURSIVE EscapeRegExp_KeepParens(_)
EscapeRegExp_KeepParens(s) ==
    IF Len(s) = 0 THEN ""
    ELSE (IF Char(s, 1) \in ESCAPED_CHARS \ {"(", ")"} THEN "\\" \o Char(s, 1)
          ELSE Char(s, 1))
         \o EscapeRegExp_KeepParens(SubSeq(s, 2, Len(s)))

\* pattern.replace(/[.*+?^${}()|[\]\\]/g, "\\$&")
RECURSIVE EscapeRegExp(_)
EscapeRegExp(s) ==
    IF Len(s) = 0 THEN ""
    ELSE (IF Char(s, 1) \in ESCAPED_CHARS THEN "\\" \o Char(s, 1) ELSE Char(s, 1))
         \o EscapeRegExp(SubSeq(s, 2, Len(s)))

\* The catch branch of the try around new RegExp in searchInPackage.
OrEscaped(pattern, direct) ==
    IF direct.ok THEN direct.nodes ELSE NewRegExp(EscapeRegExp(pattern)).nodes

\* The try/catch around new RegExp in searchInPackage.
CompilePattern(pattern) == OrEscaped(pattern, NewRegExp(pattern))

(***************************************************************************)
(* JSON.parse for the manifests the model draws from: null, or an object   *)
(* of string members without white space.  Anything else is a SyntaxError. *)
(***************************************************************************)
\* Parses "k":"v" at index i: ok with the pair and the index after it.
ParseMember(s, i) ==
    LET q1 == IndexOfFrom(s, "\"", i + 1)
        q2 == IF q1 = 0 THEN 0 ELSE IndexOfFrom(s, "\"", q1 + 3)
    IN  IF i <= Len(s) /\ Char(s, i) = "\"" /\ q1 # 0 /\ q2 # 0
           /\ SubSeq(s, q1 + 1, q1 + 2) = ":\""
        THEN [ok |-> TRUE, key |-> SubSeq(s, i + 1, q1 - 1),
              val |-> SubSeq(s, q1 + 3, q2 - 1), next |-> q2 + 1]
        ELSE [ok |-> FALSE, key |-> "", val |-> "", next |-> i]

RECURSIVE ParseMembers(_, _, _)
ParseMembers(s, i, acc) ==
    LET m == ParseMember(s, i)
    IN  IF ~m.ok THEN [ok |-> FALSE, members |-> acc]
        ELSE IF m.next = Len(s) /\ Char(s, m.next) = "}"
        THEN [ok |-> TRUE, members |-> Append(acc, <<m.key, m.val>>)]
        ELSE IF m.next < Len(s) /\ Char(s, m.next) = ","
        THEN ParseMembers(s, m.next + 1, Append(acc, <<m.key, m.val>>))
        ELSE [ok |-> FALSE, members |-> acc]

JSONparse(s) ==
    IF s = "null" THEN [ok |-> TRUE, isNull |-> TRUE, members |-> <<>>]
    ELSE IF s = "{}" THEN [ok |-> TRUE, isNull |-> FALSE, members |-> <<>>]
    ELSE IF Len(s) >= 2 /\ Char(s, 1) = "{"
    THEN LET r == ParseMembers(s, 2, <<>>)
         IN  [ok |-> r.ok, isNull |-> FALSE, members |-> r.members]
    ELSE [ok |-> FALSE, isNull |-> FALSE, members |-> <<>>]

\* obj.key: the value of the last member named key, UNDEFINED if there is none.
Property(members, key) ==
    LET hits == {i \in 1..Len(members) : members[i][1] = key}
    IN  IF hits = {} THEN UNDEFINED
        ELSE members[CHOOSE i \in hits : \A j \in hits : j <= i][2]

\* String coercion inside a template literal.
TemplateString(v) == IF v = UNDEFINED THEN "undefined" ELSE IF v = NULL THEN "null" ELSE v

(***************************************************************************)
(* Envelopes.  A handler's outcome is an envelope, or an exception that    *)
(* left the handler (threw).  text is the message: tpl names the template  *)
(* literal of the code, the other fields are its interpolated values.  io  *)
(* is the sequence of content-source calls the handler made.               *)
(***************************************************************************)
Success(text, io) == [threw |-> FALSE, isError |-> FALSE, text |-> text, io |-> io]

Failure(text, io) == [threw |-> FALSE, isError |-> TRUE, text |-> text, io |-> io]

Thrown(io) == [threw |-> TRUE, isError |-> FALSE, text |-> [tpl |-> "Exception"], io |-> io]

\* `Package "${packageId}" not found. Available: ${ids}` (+ ", or use 'all'")
PackageNotFound(packageId, ids, suffix) ==
    Failure([tpl |-> "PackageNotFound", packageId |-> packageId,
             available |-> ids, suffix |-> suffix], <<>>)

(***************************************************************************)
(* Local variant: search.                                                  *)
(***************************************************************************)
DEFAULT_MAX_RESULTS == 20

\* An inner loop that leaves lastIndex where a successful test put it.
LineTested_NoReset(st, file, i, content, r) ==
    IF r.found
    THEN [st EXCEPT !.results = Append(@, [file |-> file, line |-> i, content |-> content]),
                    !.lastIndex = r.lastIndex,
                    !.tested = Append(@, <<file, i>>)]
    ELSE [st EXCEPT !.lastIndex = r.lastIndex, !.tested = Append(@, <<file, i>>)]

\* The body of the inner loop for line i, whose regex.test returned r.
LineTested(st, file, i, content, r) ==
    IF r.found
    THEN [st EXCEPT !.results = Append(@, [file |-> file, line |-> i, content |-> content]),
                    !.lastIndex = 0,
                    !.tested = Append(@, <<file, i>>)]
    ELSE [st EXCEPT !.lastIndex = r.lastIndex, !.tested = Append(@, <<file, i>>)]

\* The inner loop of searchInPackage over the lines of one file, from line i.
\* st holds the matches so far, the regex's lastIndex, the (file, line) pairs
\* tested and the file-system calls made.
RECURSIVE ScanLines(_, _, _, _, _, _)
ScanLines(nodes, file, lines, i, maxResults, st) ==
    IF i > Len(lines) \/ Len(st.results) >= maxResults THEN st
    ELSE ScanLines(nodes, file, lines, i + 1, maxResults,
             LineTested(st, file, i, Trim(lines[i]),
                        RegexTest(nodes, lines[i], st.lastIndex)))

\* A read whose failure ends the scan of the package as a failure.
FileRead_Abort(nodes, file, maxResults, st, rd) ==
    IF rd.ok THEN ScanLines(nodes, file, Split(rd.text, "\n"), 1, maxResults, st)
    ELSE [st EXCEPT !.ok = FALSE]

\* The try/catch around the read of one file, whose readFileSync returned rd.
FileRead(nodes, file, maxResults, st, rd) ==
    IF rd.ok THEN ScanLines(nodes, file, Split(rd.text, "\n"), 1, maxResults, st)
    ELSE st

\* The body of the outer loop of searchInPackage for one file.
ScanFile(tRead, nodes, file, fullPath, maxResults, st) ==
    FileRead(nodes, file, maxResults,
             [st EXCEPT !.io = Append(@, <<"readFileSync", fullPath>>)],
             readFileSync(tRead, fullPath))

\* The outer loop of searchInPackage over the listed files; tRead is the tree
\* at the time the files are read.
RECURSIVE ScanFiles(_, _, _, _, _, _)
ScanFiles(tRead, nodes, dir, files, maxResults, st) ==
    IF Len(files) = 0 \/ Len(st.results) >= maxResults THEN st
    ELSE ScanFiles(tRead, nodes, dir, Tail(files), maxResults,
             ScanFile(tRead, nodes, Head(files), join(dir, Head(files)), maxResults, st))

\* searchInPackage after collectSourceFiles returned listing.
SearchListed(tRead, nodes, dir, listing, maxResults) ==
    IF ~listing.ok
    THEN [ok |-> FALSE, results |-> <<>>, lastIndex |-> 0, tested |-> <<>>,
          io |-> listing.io]
    ELSE ScanFiles(tRead, nodes, dir, listing.files, maxResults,
                   [ok |-> TRUE, results |-> <<>>, lastIndex |-> 0, tested |-> <<>>,
                    io |-> listing.io])

\* searchInPackage(pkg, pattern, maxResults): ok with the matches, or not ok
\* when collectSourceFiles threw.
searchInPackage(t, tRead, pkg, pattern, maxResults) ==
    SearchListed(tRead, CompilePattern(pattern), pkg.dir,
                 collectSourceFiles(t, pkg.dir, pkg.dir), maxResults)

\* results.map((r) => ({ pkg: pkg.id, ...r }))
Tagged(id, results) ==
    [j \in 1..Len(results) |->
        [pkg |-> id, file |-> results[j].file, line |-> results[j].line,
         content |-> results[j].content]]

\* A push that puts a package's matches before those collected so far.
Pushed_Prepend(acc, id, r) ==
    [ok |-> r.ok, all |-> Tagged(id, r.results) \o acc.all,
     tested |-> acc.tested \o [j \in 1..Len(r.tested) |-> <<id>> \o r.tested[j]],
     io |-> acc.io \o r.io]

\* allResults.push(...) with the outcome r of searchInPackage for package id.
Pushed(acc, id, r) ==
    [ok |-> r.ok, all |-> acc.all \o Tagged(id, r.results),
     tested |-> acc.tested \o [j \in 1..Len(r.tested) |-> <<id>> \o r.tested[j]],
     io |-> acc.io \o r.io]

\* The loop of search_source over packagesToSearch, from package k.
\* acc = [ok, all, tested, io]; all holds the tagged matches.
RECURSIVE SearchPackages(_, _, _, _, _, _, _)
\* The end of one iteration: break when the cap is reached.
SearchOn(t, tRead, pkgs, k, pattern, maxResults, acc) ==
    IF ~acc.ok \/ Len(acc.all) >= maxResults THEN acc
    ELSE SearchPackages(t, tRead, pkgs, k + 1, pattern, maxResults, acc)

SearchPackages(t, tRead, pkgs, k, pattern, maxResults, acc) ==
    IF k > Len(pkgs) THEN acc
    ELSE SearchOn(t, tRead, pkgs, k, pattern, maxResults,
             Pushed(acc, pkgs[k].id,
                    searchInPackage(t, tRead, pkgs[k], pattern,
                                    maxResults - Len(acc.all))))

\* The packages search_source searches; i is what findPackage returned.
PackagesToSearch(packageId, i) ==
    IF packageId = "all" THEN L_PACKAGES
    ELSE IF i = 0 THEN <<>> ELSE <<L_PACKAGES[i]>>

\* The reply of search_source given the outcome s of its loop.
SearchReply(packageId, pattern, s) ==
    IF ~s.ok THEN Thrown(s.io)
    ELSE IF Len(s.all) = 0
    THEN Success([tpl |-> "NoResults", pattern |-> pattern,
                  scope |-> IF packageId = "all" THEN "any package" ELSE packageId,
                  matches |-> <<>>, tested |-> s.tested], s.io)
    ELSE Success([tpl |-> "SearchResults", pattern |-> pattern,
                  found |-> Len(s.all), matches |-> s.all, tested |-> s.tested], s.io)

\* search_source after packagesToSearch was computed.
SearchIn(t, tRead, packageId, pattern, maxResults, packagesToSearch) ==
    IF Len(packagesToSearch) = 0
    THEN PackageNotFound(packageId, L_AvailableIds, ", or use 'all'")
    ELSE SearchReply(packageId, pattern,
             SearchPackages(t, tRead, packagesToSearch, 1, pattern, maxResults,
                            [ok |-> TRUE, all |-> <<>>, tested |-> <<>>, io |-> <<>>]))

\* The search_source handler of the local variant.
L_search_source(t, tRead, packageId, pattern, maxResults) ==
    SearchIn(t, tRead, packageId, pattern, maxResults,
             PackagesToSearch(packageId, L_findPackage(packageId)))

(***************************************************************************)
(* Local variant: the other tool handlers.                                 *)
(***************************************************************************)
\* The try block of list_packages: the manifest's version, "unknown" when
\* the read or the parse threw (or the parsed value is null, whose property
\* access throws).
L_ReadVersion(t) ==
    LET rd == readFileSync(t, MANIFEST_PATH)
        rootPkg == JSONparse(rd.text)
    IN  IF rd.ok /\ rootPkg.ok /\ ~rootPkg.isNull
        THEN Property(rootPkg.members, "version")
        ELSE "unknown"

L_list_packages(t) ==
    Success([tpl |-> "PackageList",
             version |-> TemplateString(L_ReadVersion(t)),
             list |-> [i \in 1..Len(L_PACKAGES) |->
                          [name |-> L_PACKAGES[i].name, id |-> L_PACKAGES[i].id,
                           description |-> L_PACKAGES[i].description,
                           github |-> L_PACKAGES[i].github,
                           directory |->
                               IF relative(PACKAGES_ROOT, L_PACKAGES[i].dir) = "" THEN "."
                               ELSE relative(PACKAGES_ROOT, L_PACKAGES[i].dir)]]],
            << <<"readFileSync", MANIFEST_PATH>> >>)

L_get_package_docs(t, packageId) ==
    LET i == L_findPackage(packageId)
    IN  IF i = 0 THEN PackageNotFound(packageId, L_AvailableIds, "")
        ELSE Success([tpl |-> "Raw", body |-> readFileSafe(t, L_PACKAGES[i].readmePath)],
                     << <<"readFileSync", L_PACKAGES[i].readmePath>> >>)

\* One element of subTypes in get_package_types.
L_SubTypes(t, p) ==
    [banner |-> "types", name |-> p.name, file |-> relative(PACKAGES_ROOT, p.typesPath),
     body |-> readFileSafe(t, p.typesPath)]

L_get_package_types(t, packageId) ==
    LET i == L_findPackage(packageId)
        pkg == L_PACKAGES[i]
        subPkgs == Filter(L_PACKAGES, LAMBDA p : ~Falsy(p.typesPath))
    IN  IF i = 0 THEN PackageNotFound(packageId, L_AvailableIds, "")
        ELSE IF Falsy(pkg.typesPath)
        THEN Success([tpl |-> "AggregatedTypes",
                      parts |-> [k \in 1..Len(subPkgs) |-> L_SubTypes(t, subPkgs[k])]],
                     [k \in 1..Len(subPkgs) |-> <<"readFileSync", subPkgs[k].typesPath>>])
        ELSE Success([tpl |-> "Types", name |-> pkg.name,
                      file |-> relative(PACKAGES_ROOT, pkg.typesPath),
                      body |-> readFileSafe(t, pkg.typesPath)],
                     << <<"readFileSync", pkg.typesPath>> >>)

\* The path-traversal guard of get_package_source: fullPath.startsWith(pkg.dir).
L_WithinPackage(fullPath, dir) == StartsWith(fullPath, dir)

\* get_package_source; tRead is the tree at the time of the final read.
L_get_package_source(t, tRead, packageId, filePath) ==
    LET i == L_findPackage(packageId)
        pkg == L_PACKAGES[i]
        fullPath == join(pkg.dir, filePath)
        listing == collectSourceFiles(t, pkg.dir, pkg.dir)
    IN  IF i = 0 THEN PackageNotFound(packageId, L_AvailableIds, "")
        ELSE IF Falsy(filePath)
        THEN IF ~listing.ok THEN Thrown(listing.io)
             ELSE Success([tpl |-> "SourceFiles", name |-> pkg.name,
                           files |-> listing.files], listing.io)
        ELSE IF ~L_WithinPackage(fullPath, pkg.dir)
        THEN Failure([tpl |-> "PathTraversal"], <<>>)
        ELSE IF ~existsSync(t, fullPath)
        THEN IF ~listing.ok THEN Thrown(<< <<"existsSync", fullPath>> >> \o listing.io)
             ELSE Failure([tpl |-> "FileNotFound", filePath |-> filePath,
                           files |-> listing.files],
                          << <<"existsSync", fullPath>> >> \o listing.io)
        ELSE Success([tpl |-> "Source", name |-> pkg.name, filePath |-> filePath,
                      body |-> readFileSafe(tRead, fullPath)],
                     << <<"existsSync", fullPath>>, <<"readFileSync", fullPath>> >>)

(***************************************************************************)
(* The remote content host.  Each package's repository holds the tree of   *)
(* that package's directory of the file tree; down is the set of           *)
(* repositories whose raw-content requests fail, apiUp tells whether the   *)
(* API endpoints answer.                                                   *)
(***************************************************************************)
Repos == {R_PACKAGES[i].repo : i \in 1..Len(R_PACKAGES)}

\* The directory of the file tree that repository repo holds.
RepoDir(repo) ==
    L_PACKAGES[CHOOSE i \in 1..Len(R_PACKAGES) : R_PACKAGES[i].repo = repo].dir

\* Whether node n lies strictly below directory dir.
Below(n, dir) == StartsWith(n.path, dir \o "/")

\* The response of raw.githubusercontent.com to GET /repo/branch/path.
HostRaw(t, down, repo, branch, path) ==
    LET full == RepoDir(repo) \o "/" \o path
        i == NodeAt(t, full)
    IN  IF repo \in down
        THEN [status |-> 500, statusText |-> "Internal Server Error", body |-> ""]
        ELSE IF repo \in Repos /\ branch = "master" /\ i # 0 /\ t[i].kind = "file"
        THEN [status |-> 200, statusText |-> "OK", body |-> t[i].content]
        ELSE [status |-> 404, statusText |-> "Not Found", body |-> ""]

\* fetchRawFile: ok with the text, or the Error it throws.
fetchRawFile(t, down, repo, branch, path) ==
    LET response == HostRaw(t, down, repo, branch, path)
    IN  IF response.status = 200
        THEN [ok |-> TRUE, text |-> response.body, message |-> ""]
        ELSE IF response.status = 404
        THEN [ok |-> FALSE, text |-> "",
              message |-> "File not found: " \o path \o " in " \o repo]
        ELSE [ok |-> FALSE, text |-> "",
              message |-> "Failed to fetch file: " \o response.statusText]

\* The message fetchGitHubAPI throws on a non-success response (403 Forbidden
\* is what the host answers when the rate limit is used up).
API_ERROR == "GitHub API Error: 403 Forbidden"

\* GET /repos/{repo}/git/trees/{branch}?recursive=1 through fetchGitHubAPI:
\* every node of the repository with its path and type.
fetchTree(t, apiUp, repo) ==
    LET dir == RepoDir(repo)
        nodes == Filter(t, LAMBDA n : Below(n, dir))
    IN  IF ~apiUp THEN [ok |-> FALSE, tree |-> <<>>, message |-> API_ERROR]
        ELSE [ok |-> TRUE, message |-> "",
              tree |-> [k \in 1..Len(nodes) |->
                           [path |-> relative(dir, nodes[k].path),
                            type |-> IF nodes[k].kind = "file" THEN "blob" ELSE "tree"]]]

RECURSIVE ToLowerCase(_)
ToLowerCase(s) ==
    IF Len(s) = 0 THEN ""
    ELSE Canonicalize(Char(s, 1)) \o ToLowerCase(SubSeq(s, 2, Len(s)))

\* The files of one repository whose text contains term, as search items.
HostHits(t, term, repo) ==
    LET dir == RepoDir(repo)
        hits == Filter(t, LAMBDA n : /\ Below(n, dir)
                                     /\ n.kind = "file"
                                     /\ Includes(ToLowerCase(n.content), ToLowerCase(term)))
    IN  [k \in 1..Len(hits) |->
            [path |-> relative(dir, hits[k].path),
             repository |-> repo,
             html_url |-> "https://github.com/" \o repo \o "/blob/master/"
                          \o relative(dir, hits[k].path)]]

\* GET /search/code?q=... through fetchGitHubAPI; the query is the term and
\* the repositories it is scoped to, in the order they are named.
fetchSearch(t, apiUp, term, repos) ==
    LET items == Flatten([k \in 1..Len(repos) |-> HostHits(t, term, repos[k])])
    IN  IF ~apiUp THEN [ok |-> FALSE, message |-> API_ERROR, total_count |-> 0,
                        items |-> <<>>]
        ELSE [ok |-> TRUE, message |-> "", total_count |-> Len(items), items |-> items]

(***************************************************************************)
(* Remote variant: the tool handlers.                                      *)
(***************************************************************************)
\* The try block of list_packages.
R_ReadVersion(t, down) ==
    LET rd == fetchRawFile(t, down, "gaddario98/react-core", "master", "package.json")
        pkgJson == JSONparse(rd.text)
    IN  IF rd.ok /\ pkgJson.ok /\ ~pkgJson.isNull
        THEN Property(pkgJson.members, "version")
        ELSE "unknown"

R_list_packages(t, down) ==
    Success([tpl |-> "PackageList",
             version |-> TemplateString(R_ReadVersion(t, down)),
             list |-> [i \in 1..Len(R_PACKAGES) |->
                          [name |-> R_PACKAGES[i].name, id |-> R_PACKAGES[i].id,
                           description |-> R_PACKAGES[i].description,
                           github |-> R_PACKAGES[i].github]]],
            << <<"fetchRawFile", "gaddario98/react-core", "package.json">> >>)

R_get_package_docs(t, down, packageId) ==
    LET i == R_findPackage(packageId)
        pkg == R_PACKAGES[i]
        rd == fetchRawFile(t, down, pkg.repo, pkg.branch, pkg.readmePath)
        io == << <<"fetchRawFile", pkg.repo, pkg.readmePath>> >>
    IN  IF i = 0 THEN PackageNotFound(packageId, R_AvailableIds, "")
        ELSE IF rd.ok THEN Success([tpl |-> "Raw", body |-> rd.text], io)
        ELSE Failure([tpl |-> "ErrorFetchingDocumentation", message |-> rd.message], io)

\* R_SubTypes on whose failed fetch the part keeps the banner of a fetched
\* file, with no text.
R_SubTypes_NoMarker(t, down, p) ==
    [banner |-> "types", name |-> p.name, file |-> p.typesPath,
     body |-> fetchRawFile(t, down, p.repo, p.branch, p.typesPath).text]

\* One element of subTypesPromises in get_package_types.
R_SubTypes(t, down, p) ==
    LET rd == fetchRawFile(t, down, p.repo, p.branch, p.typesPath)
    IN  IF rd.ok
        THEN [banner |-> "types", name |-> p.name, file |-> p.typesPath, body |-> rd.text]
        ELSE [banner |-> "types: Not Available", name |-> p.name, file |-> "", body |-> ""]

\* PACKAGES.filter((p) => p.typesPath !== null)
R_SubPkgs == Filter(R_PACKAGES, LAMBDA p : p.typesPath # NULL)

\* The orders in which n fetches that are in flight together can settle.
SettleOrders(n) == {o \in [1..n -> 1..n] : \A a, b \in 1..n : o[a] = o[b] => a = b}

\* The calls of subPkgs.map(async ...) under Promise.all: map runs every
\* callback up to its first await, so every fetch is started before any has
\* settled; the fetches then settle in the order given.
SubFetchLog(subPkgs, order) ==
    [k \in 1..Len(subPkgs) |-> <<"fetchRawFile", subPkgs[k].repo, subPkgs[k].typesPath>>]
    \o [k \in 1..Len(subPkgs) |->
           <<"settled", subPkgs[order[k]].repo, subPkgs[order[k]].typesPath>>]

\* get_package_types; order is the order in which the sub-fetches of the
\* aggregate settle.
R_get_package_types(t, down, packageId, order) ==
    LET i == R_findPackage(packageId)
        pkg == R_PACKAGES[i]
        rd == fetchRawFile(t, down, pkg.repo, pkg.branch, pkg.typesPath)
    IN  IF i = 0 THEN PackageNotFound(packageId, R_AvailableIds, "")
        ELSE IF Falsy(pkg.typesPath)
        THEN Success([tpl |-> "AggregatedTypes",
                      parts |-> [k \in 1..Len(R_SubPkgs) |->
                                    R_SubTypes(t, down, R_SubPkgs[k])]],
                     SubFetchLog(R_SubPkgs, order))
        ELSE IF rd.ok
        THEN Success([tpl |-> "Types", name |-> pkg.name, file |-> pkg.typesPath,
                      body |-> rd.text],
                     << <<"fetchRawFile", pkg.repo, pkg.typesPath>> >>)
        ELSE Failure([tpl |-> "ErrorFetchingTypes", message |-> rd.message],
                     << <<"fetchRawFile", pkg.repo, pkg.typesPath>> >>)

IGNORE_PATTERNS == <<"node_modules", "dist", ".git", ".github", ".claude">>

\* The filter of get_package_source over the paths of the tree's blobs.
R_KeepPath(pkg, path) ==
    /\ ~(pkg.basePath # "" /\ ~StartsWith(path, pkg.basePath \o "/"))
    /\ \A k \in 1..Len(IGNORE_PATTERNS) :
           ~(\/ Includes(path, "/" \o IGNORE_PATTERNS[k] \o "/")
             \/ StartsWith(path, IGNORE_PATTERNS[k] \o "/"))
    /\ \E ext \in {".ts", ".tsx", ".js", ".jsx"} : EndsWith(path, ext)

R_get_package_source(t, down, apiUp, packageId, filePath) ==
    LET i == R_findPackage(packageId)
        pkg == R_PACKAGES[i]
        treeData == fetchTree(t, apiUp, pkg.repo)
        blobs == Filter(treeData.tree, LAMBDA item : item.type = "blob")
        paths == [k \in 1..Len(blobs) |-> blobs[k].path]
        kept == Filter(paths, LAMBDA path : R_KeepPath(pkg, path))
        files == [k \in 1..Len(kept) |->
                     IF pkg.basePath # ""
                     THEN SubSeq(kept[k], Len(pkg.basePath) + 2, Len(kept[k]))
                     ELSE kept[k]]
        fullPath == IF pkg.basePath # "" THEN pkg.basePath \o "/" \o filePath ELSE filePath
        rd == fetchRawFile(t, down, pkg.repo, pkg.branch, fullPath)
    IN  IF i = 0 THEN PackageNotFound(packageId, R_AvailableIds, "")
        ELSE IF Falsy(filePath)
        THEN IF treeData.ok
             THEN Success([tpl |-> "SourceFiles", name |-> pkg.name, files |-> files],
                          << <<"fetchGitHubAPI", "trees", pkg.repo>> >>)
             ELSE Failure([tpl |-> "ErrorListingFiles", message |-> treeData.message],
                          << <<"fetchGitHubAPI", "trees", pkg.repo>> >>)
        ELSE IF rd.ok
        THEN Success([tpl |-> "Source", name |-> pkg.name, filePath |-> filePath,
                      body |-> rd.text],
                     << <<"fetchRawFile", pkg.repo, fullPath>> >>)
        ELSE Failure([tpl |-> "ErrorFetchingSourceFile", message |-> rd.message],
                     << <<"fetchRawFile", pkg.repo, fullPath>> >>)

\* The package id search_source prints beside a hit's repository.
R_PkgIdMatch(repoFullName) ==
    IF repoFullName = "gaddario98/react-base-form" THEN "react-form"
    ELSE IF repoFullName = "gaddario98/react-base-queries" THEN "react-queries"
    ELSE IF repoFullName = "gaddario98/react-base-pages" THEN "react-pages"
    ELSE "react-core"

\* Array.from(new Set(PACKAGES.map((p) => p.repo))): first occurrences, in order.
R_AllRepos ==
    LET all == [i \in 1..Len(R_PACKAGES) |-> R_PACKAGES[i].repo]
        idx == {i \in 1..Len(all) : \A j \in 1..(i - 1) : all[j] # all[i]}
        F[i \in 0..Len(all)] ==
            IF i = 0 THEN <<>> ELSE IF i \in idx THEN Append(F[i - 1], all[i]) ELSE F[i - 1]
    IN  F[Len(all)]

R_search_source(t, apiUp, packageId, pattern) ==
    LET i == R_findPackage(packageId)
        repos == IF packageId # "all" /\ i # 0 THEN <<R_PACKAGES[i].repo>> ELSE R_AllRepos
        searchData == fetchSearch(t, apiUp, pattern, repos)
        io == << <<"fetchGitHubAPI", "search", repos>> >>
    IN  IF ~searchData.ok
        THEN Failure([tpl |-> "SearchError", message |-> searchData.message], io)
        ELSE IF Len(searchData.items) = 0
        THEN Success([tpl |-> "NoResults", pattern |-> pattern,
                      scope |-> IF packageId = "all" THEN "any package" ELSE packageId,
                      matches |-> <<>>], io)
        ELSE Success([tpl |-> "SearchResults", pattern |-> pattern,
                      found |-> searchData.total_count,
                      matches |-> [k \in 1..Len(searchData.items) |->
                                      [pkg |-> R_PkgIdMatch(searchData.items[k].repository),
                                       repository |-> searchData.items[k].repository,
                                       file |-> searchData.items[k].path,
                                       url |-> searchData.items[k].html_url]]], io)

(***************************************************************************)
(* The states of the content source the model draws from: the base tree    *)
(* and the trees one change away from it.                                  *)
(***************************************************************************)
Unlink(t, p) == Filter(t, LAMBDA n : n.path # p)

RemoveTree(t, dir) == Filter(t, LAMBDA n : n.path # dir /\ ~Below(n, dir))

ReplaceByFile(t, dir) ==
    LET kept == Filter(t, LAMBDA n : ~Below(n, dir))
    IN  [k \in 1..Len(kept) |-> IF kept[k].path = dir THEN File(dir, "") ELSE kept[k]]

Chmod000(t, p) == [k \in 1..Len(t) |-> IF t[k].path = p THEN [t[k] EXCEPT !.readable = FALSE]
                                       ELSE t[k]]

WriteFile(t, p, c) == [k \in 1..Len(t) |-> IF t[k].path = p THEN File(p, c) ELSE t[k]]

FORM_DIR == "/ws/react-base-core/form"

Manifests == {"{}", "{\"name\":\"core\"}", "not json", "null"}

Trees ==
    {BaseTree}
    \cup {Unlink(BaseTree, p) : p \in {MANIFEST_PATH, join(FORM_DIR, "README.md"),
                                       join(FORM_DIR, "types.ts"),
                                       join(FORM_DIR, "hooks/useForm.tsx"),
                                       join(PACKAGES_ROOT, "queries/types.ts")}}
    \cup {RemoveTree(BaseTree, d) : d \in {PACKAGES_ROOT, FORM_DIR}}
    \cup {ReplaceByFile(BaseTree, d) : d \in {FORM_DIR}}
    \cup {Chmod000(BaseTree, p) : p \in {join(FORM_DIR, "hooks"), join(FORM_DIR, "types.ts")}}
    \cup {WriteFile(BaseTree, MANIFEST_PATH, c) : c \in Manifests}

(***************************************************************************)
(* The requests the model draws from.                                      *)
(***************************************************************************)
PackageIds == {"react-core", "react-form", "react-queries", "@gaddario98/react-pages",
               "nope", "all"}

FilePaths == {UNDEFINED, "types.ts", "hooks/useForm.tsx", "hooks", "missing.ts",
              "../form-evil/x.ts", "../../etc/passwd", "form/../index.ts"}

Patterns == {"useForm", "a(", "A(", "a.b", "a*a", "a\\", "", "*"}

MaxResultsValues == 0..MaxResultsBound

\* The files whose removal during a request the model considers.
Victims == {join(FORM_DIR, "types.ts"), join(FORM_DIR, "hooks/useForm.tsx")}

\* The tree at the time of a handler's later reads: the tree at its start, or
\* that tree with one file removed in between.
LaterTrees(t) == {t} \cup {Unlink(t, p) : p \in {v \in Victims : NodeAt(t, v) # 0}}

(***************************************************************************)
(* The state machine: one request at a time, handled in one step.          *)
(***************************************************************************)
VARIABLES
    fs,         \* the file tree now
    fsAtStart,  \* the file tree when the pending request was received
    pc,         \* "idle" or "done"
    req,        \* the request handled last
    resp        \* its outcome

vars == <<fs, fsAtStart, pc, req, resp>>

NoRequest == [variant |-> "none", op |-> "none"]

NoResponse == [threw |-> FALSE, isError |-> FALSE, text |-> [tpl |-> "none"], io |-> <<>>]

Init ==
    /\ fs = BaseTree
    /\ fsAtStart = BaseTree
    /\ pc = "idle"
    /\ req = NoRequest
    /\ resp = NoResponse

\* A tool call and the condition of the remote host while it is handled (for
\* the local variant no repository is down and apiUp is TRUE).
Request(variant, op, packageId, filePath, pattern, maxResults, down, apiUp) ==
    [variant |-> variant, op |-> op, packageId |-> packageId, filePath |-> filePath,
     pattern |-> pattern, maxResults |-> maxResults, down |-> down, apiUp |-> apiUp]

\* A handler ran on tree fs (its later reads on tRead) and returned r.
Complete(r, q, tRead) ==
    /\ pc = "idle"
    /\ pc' = "done"
    /\ req' = q
    /\ resp' = r
    /\ fsAtStart' = fs
    /\ fs' = tRead

\* The content source changes between two requests.
FsChange ==
    /\ pc = "idle"
    /\ \E t \in Trees \ {fs} : fs' = t /\ fsAtStart' = t
    /\ UNCHANGED <<pc, req, resp>>

\* The transport returns the envelope; the next request may be received.
Reply ==
    /\ pc = "done"
    /\ pc' = "idle"
    /\ fsAtStart' = fs
    /\ req' = NoRequest
    /\ resp' = NoResponse
    /\ UNCHANGED fs

LocalListPackages ==
    Complete(L_list_packages(fs),
             Request("local", "list_packages", "", "", "", 0, {}, TRUE), fs)

LocalGetDocs ==
    \E id \in PackageIds :
        Complete(L_get_package_docs(fs, id),
                 Request("local", "get_package_docs", id, "", "", 0, {}, TRUE), fs)

LocalGetTypes ==
    \E id \in PackageIds :
        Complete(L_get_package_types(fs, id),
                 Request("local", "get_package_types", id, "", "", 0, {}, TRUE), fs)

LocalGetSource ==
    \E id \in PackageIds, fp \in FilePaths, tRead \in LaterTrees(fs) :
        Complete(L_get_package_source(fs, tRead, id, fp),
                 Request("local", "get_package_source", id, fp, "", 0, {}, TRUE), tRead)

LocalSearch ==
    \E id \in PackageIds, pattern \in Patterns,
       maxResults \in MaxResultsValues \cup {DEFAULT_MAX_RESULTS},
       tRead \in LaterTrees(fs) :
        Complete(L_search_source(fs, tRead, id, pattern, maxResults),
                 Request("local", "search_source", id, "", pattern, maxResults, {}, TRUE),
                 tRead)

RemoteListPackages ==
    \E down \in SUBSET {"gaddario98/react-core"} :
        Complete(R_list_packages(fs, down),
                 Request("remote", "list_packages", "", "", "", 0, down, TRUE), fs)

RemoteGetDocs ==
    \E id \in PackageIds, down \in {{}, Repos} :
        Complete(R_get_package_docs(fs, down, id),
                 Request("remote", "get_package_docs", id, "", "", 0, down, TRUE), fs)

RemoteGetTypes ==
    \E id \in PackageIds, down \in SUBSET Repos, order \in SettleOrders(Len(R_SubPkgs)) :
        Complete(R_get_package_types(fs, down, id, order),
                 Request("remote", "get_package_types", id, "", "", 0, down, TRUE), fs)

RemoteGetSource ==
    \E id \in PackageIds, fp \in FilePaths, up \in BOOLEAN :
        Complete(R_get_package_source(fs, IF up THEN {} ELSE Repos, up, id, fp),
                 Request("remote", "get_package_source", id, fp, "", 0,
                         IF up THEN {} ELSE Repos, up), fs)

\* The remote tool declares no maxResults: whatever the client sends for it
\* is dropped before the handler runs.
RemoteSearch ==
    \E id \in PackageIds, pattern \in Patterns,
       maxResults \in MaxResultsValues \cup {DEFAULT_MAX_RESULTS}, apiUp \in BOOLEAN :
        Complete(R_search_source(fs, apiUp, id, pattern),
                 Request("remote", "search_source", id, "", pattern, maxResults, {}, apiUp),
                 fs)

Next ==
    \/ FsChange
    \/ Reply
    \/ LocalListPackages
    \/ LocalGetDocs
    \/ LocalGetTypes
    \/ LocalGetSource
    \/ LocalSearch
    \/ RemoteListPackages
    \/ RemoteGetDocs
    \/ RemoteGetTypes
    \/ RemoteGetSource
    \/ RemoteSearch

Spec == Init /\ [][Next]_vars

(***************************************************************************)
(* Properties.  Each describes the response of the request handled last    *)
(* (pc = "done"): req is the call, fsAtStart the file tree when the        *)
(* handler started, fs the tree at its last read, resp the outcome.        *)
(***************************************************************************)
Handled(variant, op) == pc = "done" /\ req.variant = variant /\ req.op = op

HandledOp(op) == pc = "done" /\ req.op = op

\* What findPackage returns for the handled request, in its variant.
ReqPackage ==
    IF req.variant = "local" THEN L_findPackage(req.packageId)
    ELSE R_findPackage(req.packageId)

\* The absolute location that filePath resolves to below a package directory.
Resolved(dir, filePath) == join(dir, filePath)

\* Whether location full is dir itself or lies below it.
InsideDir(full, dir) == full = dir \/ StartsWith(full, StripSlash(dir) \o "/")

\* C1: the local get_package_source, for a registered package and a filePath
\* that resolves outside the package's directory (a sibling directory whose
\* name starts with the package directory's name included), answers with the
\* path-traversal error and makes no file-system call.
C1_TraversalRejected ==
    (/\ Handled("local", "get_package_source")
     /\ ~Falsy(req.filePath)
     /\ ReqPackage # 0
     /\ ~InsideDir(Resolved(L_PACKAGES[ReqPackage].dir, req.filePath),
                   L_PACKAGES[ReqPackage].dir))
    => /\ ~resp.threw
       /\ resp.isError
       /\ resp.text.tpl = "PathTraversal"
       /\ resp.io = <<>>

OpsWithPackageId ==
    {"get_package_docs", "get_package_types", "get_package_source", "search_source"}

\* The ids of the registry, each once, in registry order.
RegistryIdList == "react-core, react-form, react-queries, react-pages"

\* C2: in both variants, every operation that takes a packageId answers a
\* packageId the registry lookup does not match (the search scope "all"
\* aside) with isError and the list of the valid ids in registry order, and
\* queries no content source.
C2_UnknownPackageRejected ==
    (/\ pc = "done"
     /\ req.op \in OpsWithPackageId
     /\ ReqPackage = 0
     /\ ~(req.op = "search_source" /\ req.packageId = "all"))
    => /\ ~resp.threw
       /\ resp.isError
       /\ resp.text.tpl = "PackageNotFound"
       /\ resp.text.available = RegistryIdList
       /\ resp.io = <<>>

\* C3: in both variants, a search_source response carries at most maxResults
\* matches, for every scope, pattern, file tree and maxResults >= 0.
C3_AtMostMaxResults ==
    (/\ HandledOp("search_source")
     /\ ~resp.threw
     /\ resp.text.tpl \in {"NoResults", "SearchResults"})
    => Len(resp.text.matches) <= req.maxResults

\* The names, in registry order, of the packages that have a types file.
NamesWithTypes ==
    <<"@gaddario98/react-form", "@gaddario98/react-queries", "@gaddario98/react-pages">>

\* Whether part is what the aggregate must show for local package p: the
\* file's text under the package's banner, or under the same banner the
\* message that the file was not found.
L_PartFor(part, p) ==
    LET i == NodeAt(fsAtStart, p.typesPath)
        readable == i # 0 /\ fsAtStart[i].kind = "file" /\ fsAtStart[i].readable
    IN  /\ part.name = p.name
        /\ part.banner = "types"
        /\ part.body = IF readable THEN fsAtStart[i].content
                       ELSE "Error: file not found at " \o p.typesPath

\* Whether part is what the aggregate must show for remote package p: the
\* fetched text under the package's banner, or the "Not Available" banner.
R_PartFor(part, p) ==
    LET i == NodeAt(fsAtStart, RepoDir(p.repo) \o "/" \o p.typesPath)
        fetched == p.repo \notin req.down /\ i # 0 /\ fsAtStart[i].kind = "file"
    IN  /\ part.name = p.name
        /\ IF fetched THEN part.banner = "types" /\ part.body = fsAtStart[i].content
           ELSE part.banner = "types: Not Available" /\ part.body = ""

\* C4: get_package_types on the package without a types file answers with a
\* success envelope holding, in registry order, one part for each package
\* that has a types file: its types text, or the marker that it is not
\* available, whichever sub-reads succeed or fail.
C4_AggregateNeverFails ==
    (/\ HandledOp("get_package_types")
     /\ ReqPackage # 0
     /\ Falsy(L_PACKAGES[ReqPackage].typesPath))
    => /\ ~resp.threw
       /\ ~resp.isError
       /\ resp.text.tpl = "AggregatedTypes"
       /\ Len(resp.text.parts) = Len(NamesWithTypes)
       /\ \A k \in 1..Len(NamesWithTypes) :
              /\ resp.text.parts[k].name = NamesWithTypes[k]
              /\ IF req.variant = "local"
                 THEN L_PartFor(resp.text.parts[k], L_PACKAGES[L_findPackage(NamesWithTypes[k])])
                 ELSE R_PartFor(resp.text.parts[k], R_PACKAGES[R_findPackage(NamesWithTypes[k])])

\* The aggregate was built while one sub-read failed and another succeeded,
\* in the remote variant.
C4_Witness_MixedSubFetches ==
    /\ Handled("remote", "get_package_types")
    /\ req.packageId = "react-core"
    /\ ~resp.isError
    /\ \E k \in 1..Len(resp.text.parts) : resp.text.parts[k].banner = "types: Not Available"
    /\ \E k \in 1..Len(resp.text.parts) : resp.text.parts[k].banner = "types"

\* Whether the README of the handled request's package can be read.
ReadmeReadable ==
    IF req.variant = "local"
    THEN readFileSync(fsAtStart, L_PACKAGES[ReqPackage].readmePath).ok
    ELSE fetchRawFile(fsAtStart, req.down, R_PACKAGES[ReqPackage].repo,
                      R_PACKAGES[ReqPackage].branch, R_PACKAGES[ReqPackage].readmePath).ok

\* The text of the README of the handled request's package.
ReadmeText ==
    IF req.variant = "local"
    THEN fsAtStart[NodeAt(fsAtStart, L_PACKAGES[ReqPackage].readmePath)].content
    ELSE fsAtStart[NodeAt(fsAtStart, RepoDir(R_PACKAGES[ReqPackage].repo) \o "/"
                                     \o R_PACKAGES[ReqPackage].readmePath)].content

\* C5: in both variants, get_package_docs for a known package answers with
\* the README's text, unchanged, in a success envelope when the README can be
\* read, and with an error envelope when it cannot; a success envelope never
\* holds an error message.
C5_DocsOrError ==
    (HandledOp("get_package_docs") /\ ReqPackage # 0)
    => /\ ~resp.threw
       /\ IF ReadmeReadable
          THEN ~resp.isError /\ resp.text.tpl = "Raw" /\ resp.text.body = ReadmeText
          ELSE resp.isError

\* The node, in the tree of the handler's last read, of the file that the
\* handled get_package_source names (0 if there is none).
SourceNode ==
    IF req.variant = "local"
    THEN NodeAt(fs, Resolved(L_PACKAGES[ReqPackage].dir, req.filePath))
    ELSE NodeAt(fs, RepoDir(R_PACKAGES[ReqPackage].repo) \o "/" \o req.filePath)

\* C6: in both variants, get_package_source with a filePath answers either
\* with the file's text under the banner naming package and path, in a
\* success envelope, or with an error envelope, also when the path names a
\* directory or the file goes away between the existence check and the read;
\* a success envelope never holds a read-error message.
C6_SourceOrError ==
    (/\ HandledOp("get_package_source")
     /\ ~Falsy(req.filePath)
     /\ ReqPackage # 0
     /\ ~resp.threw)
    => \/ resp.isError
       \/ /\ resp.text.tpl = "Source"
          /\ resp.text.name = L_PACKAGES[ReqPackage].name
          /\ resp.text.filePath = req.filePath
          /\ SourceNode # 0
          /\ fs[SourceNode].kind = "file"
          /\ resp.text.body = fs[SourceNode].content

\* C7: no failure leaves a handler as an exception, for every operation,
\* argument and state of the content source.
C7_NothingEscapes == pc = "done" => ~resp.threw

\* Whether line contains pattern as literal text, letter case aside.
ContainsLiteral(line, pattern) == Includes(ToLowerCase(line), ToLowerCase(pattern))

\* The lines of one file that contain pattern as literal text, as matches.
HitsInFile(id, file, lines, pattern) ==
    LET F[i \in 0..Len(lines)] ==
            IF i = 0 THEN <<>>
            ELSE IF ContainsLiteral(lines[i], pattern)
            THEN Append(F[i - 1], [pkg |-> id, file |-> file, line |-> i,
                                   content |-> Trim(lines[i])])
            ELSE F[i - 1]
    IN  F[Len(lines)]

\* The readable text of the file at path p of tree t, split in lines.
LinesAt(t, p) ==
    LET i == NodeAt(t, p)
    IN  IF i # 0 /\ t[i].kind = "file" /\ t[i].readable
        THEN Split(t[i].content, "\n") ELSE <<>>

\* The literal matches in the source files of package pkg, in listing order.
HitsInPackage(t, tRead, pkg, pattern) ==
    LET files == collectSourceFiles(t, pkg.dir, pkg.dir).files
        G[k \in 0..Len(files)] ==
            IF k = 0 THEN <<>>
            ELSE G[k - 1] \o HitsInFile(pkg.id, files[k],
                                        LinesAt(tRead, pkg.dir \o "/" \o files[k]), pattern)
    IN  G[Len(files)]

\* The literal matches in the packages pkgs, in order.
LiteralHits(t, tRead, pkgs, pattern) ==
    LET H[k \in 0..Len(pkgs)] ==
            IF k = 0 THEN <<>> ELSE H[k - 1] \o HitsInPackage(t, tRead, pkgs[k], pattern)
    IN  H[Len(pkgs)]

\* The first n elements of seq.
Take(seq, n) == SubSeq(seq, 1, IF n < Len(seq) THEN n ELSE Len(seq))

\* The packages the handled local search_source searches.
SearchedPackages ==
    IF req.packageId = "all" THEN L_PACKAGES
    ELSE IF ReqPackage = 0 THEN <<>> ELSE <<L_PACKAGES[ReqPackage]>>

\* C8: the local search_source with a pattern that is no valid regular
\* expression answers with exactly the lines that contain the pattern as
\* literal text, letter case aside (the first maxResults of them), unless
\* the enumeration of the files failed.
C8_InvalidPatternIsLiteral ==
    (/\ Handled("local", "search_source")
     /\ ~NewRegExp(req.pattern).ok
     /\ Len(SearchedPackages) > 0
     /\ ~resp.threw)
    => /\ ~resp.isError
       /\ resp.text.matches =
              Take(LiteralHits(fsAtStart, fs, SearchedPackages, req.pattern), req.maxResults)

\* An invalid pattern in capitals found lines that hold it in small letters.
C8_Witness_LiteralMatches ==
    /\ Handled("local", "search_source")
    /\ req.pattern = "A("
    /\ req.packageId = "react-form"
    /\ ~resp.threw
    /\ resp.text.tpl = "SearchResults"
    /\ Len(resp.text.matches) = 2
    /\ resp.text.matches[2].content = "let b = a*a("

\* The version the manifest gives, UNDEFINED if it has none, "unknown" if
\* the manifest cannot be read or parsed.
ManifestVersion ==
    IF req.variant = "local" THEN L_ReadVersion(fsAtStart)
    ELSE R_ReadVersion(fsAtStart, req.down)

\* C9: in both variants, list_packages answers with a success envelope that
\* lists every package of the registry in registry order, and its version is
\* the manifest's version, or "unknown" when the manifest is missing, cannot
\* be parsed or has no version field.
C9_VersionOrUnknown ==
    HandledOp("list_packages")
    => /\ ~resp.threw
       /\ ~resp.isError
       /\ [k \in 1..Len(resp.text.list) |-> resp.text.list[k].id]
              = <<"react-core", "react-form", "react-queries", "react-pages">>
       /\ \A k \in 1..Len(resp.text.list) :
              /\ resp.text.list[k].description = L_PACKAGES[k].description
              /\ resp.text.list[k].github = IF req.variant = "local" THEN L_PACKAGES[k].github
                                            ELSE R_PACKAGES[k].github
       /\ resp.text.version = IF ManifestVersion = UNDEFINED THEN "unknown"
                              ELSE ManifestVersion

\* The components of a relative path.
Components(path) == Range(Split(path, "/"))

\* Whether name is a non-empty stem followed by one of the source extensions.
HasSourceExtension(name) ==
    \E ext \in EXTENSIONS : EndsWith(name, ext) /\ Len(name) > Len(ext)

\* The directory of the file tree that holds the handled request's package.
ReqDir == L_PACKAGES[ReqPackage].dir

\* The paths, relative to the package directory, of the files below it.
FilesBelow(t, dir) ==
    {relative(dir, t[i].path) : i \in {j \in 1..Len(t) : t[j].kind = "file" /\ Below(t[j], dir)}}

\* The listing the other variant gives for the same package and file tree,
\* when it gives one.
OtherListing ==
    IF req.variant = "local"
    THEN R_get_package_source(fsAtStart, {}, TRUE, req.packageId, UNDEFINED)
    ELSE L_get_package_source(fsAtStart, fsAtStart, req.packageId, UNDEFINED)

\* C10: get_package_source without a filePath lists a path exactly if it is
\* a file below the package's directory with extension .ts, .tsx, .js or
\* .jsx and no component named node_modules, dist, .git, .github or .claude;
\* the local and the remote variant list the same paths for the same tree.
C10_ListingExactAndAlike ==
    (/\ HandledOp("get_package_source")
     /\ Falsy(req.filePath)
     /\ ReqPackage # 0
     /\ ~resp.threw
     /\ ~resp.isError)
    => /\ \A path \in Range(resp.text.files) :
              /\ path \in FilesBelow(fsAtStart, ReqDir)
              /\ \E ext \in EXTENSIONS : EndsWith(path, ext)
              /\ Components(path) \cap IGNORE = {}
       /\ \A path \in FilesBelow(fsAtStart, ReqDir) :
              (HasSourceExtension(basename("/" \o path)) /\ Components(path) \cap IGNORE = {})
              => path \in Range(resp.text.files)
       /\ (~OtherListing.threw /\ ~OtherListing.isError)
              => Range(OtherListing.text.files) = Range(resp.text.files)

\* The absolute location of the file of local match m.
MatchLocation(m) ==
    L_PACKAGES[L_findPackage(m.pkg)].dir \o "/" \o m.file

\* The registry index of the package that owns location full: the package
\* with the deepest directory that holds it.
OwnerOf(full) ==
    CHOOSE i \in 1..Len(L_PACKAGES) :
        /\ InsideDir(full, L_PACKAGES[i].dir)
        /\ \A j \in 1..Len(L_PACKAGES) :
               InsideDir(full, L_PACKAGES[j].dir)
               => Len(L_PACKAGES[j].dir) <= Len(L_PACKAGES[i].dir)

\* The id of the package whose repository is repo.
IdOfRepo(repo) ==
    R_PACKAGES[CHOOSE i \in 1..Len(R_PACKAGES) : R_PACKAGES[i].repo = repo].id

\* C11: search_source with scope "all" tags every match with the id of the
\* package that owns the matched file: a file below one package's directory
\* is not reported under another package's id, and no line of a file is
\* reported twice.
C11_TaggedWithOwner ==
    (/\ HandledOp("search_source")
     /\ req.packageId = "all"
     /\ ~resp.threw
     /\ resp.text.tpl = "SearchResults")
    => IF req.variant = "local"
       THEN /\ \A k \in 1..Len(resp.text.matches) :
                   resp.text.matches[k].pkg
                       = L_PACKAGES[OwnerOf(MatchLocation(resp.text.matches[k]))].id
            /\ \A j, k \in 1..Len(resp.text.matches) :
                   (/\ MatchLocation(resp.text.matches[j]) = MatchLocation(resp.text.matches[k])
                    /\ resp.text.matches[j].line = resp.text.matches[k].line)
                   => j = k
       ELSE \A k \in 1..Len(resp.text.matches) :
                resp.text.matches[k].pkg = IdOfRepo(resp.text.matches[k].repository)

\* The registry indices of the descriptors that identifier names: by id, by
\* name, or by id once the namespace prefix is taken off its front.
Matching(identifier) ==
    {i \in 1..Len(L_PACKAGES) :
        \/ identifier = L_PACKAGES[i].id
        \/ identifier = L_PACKAGES[i].name
        \/ /\ StartsWith(identifier, "@gaddario98/")
           /\ SubSeq(identifier, 13, Len(identifier)) = L_PACKAGES[i].id}

\* C12: the registry lookup returns descriptor p exactly when the identifier
\* is p's id, p's name, or p's id behind the prefix "@gaddario98/"; at most
\* one descriptor matches; for any other identifier it returns no descriptor
\* as a value, which get_package_docs turns into the package-not-found
\* envelope, and otherwise get_package_docs reads the README of p.
C12_LookupTolerant ==
    (pc = "done" /\ req.op \in OpsWithPackageId)
    => /\ Cardinality(Matching(req.packageId)) <= 1
       /\ IF Matching(req.packageId) = {} THEN ReqPackage = 0
          ELSE ReqPackage \in Matching(req.packageId)
       /\ req.op = "get_package_docs"
          => /\ ~resp.threw
             /\ resp.text.tpl = "PackageNotFound" <=> Matching(req.packageId) = {}
             /\ \A i \in Matching(req.packageId) :
                    resp.io = IF req.variant = "local"
                              THEN << <<"readFileSync", L_PACKAGES[i].readmePath>> >>
                              ELSE << <<"fetchRawFile", R_PACKAGES[i].repo,
                                        R_PACKAGES[i].readmePath>> >>

\* A package was looked up by its name and its README was returned.
C12_Witness_FoundByName ==
    /\ Handled("local", "get_package_docs")
    /\ req.packageId = "@gaddario98/react-pages"
    /\ ~resp.isError
    /\ resp.text.body = "# react-pages"

\* The decimal numeral of a natural number.
RECURSIVE Decimal(_)
Decimal(n) ==
    IF n < 10 THEN SubSeq("0123456789", n + 1, n + 1)
    ELSE Decimal(n \div 10) \o Decimal(n % 10)

\* The host's response to the README fetch of the handled remote request.
ReadmeResponse ==
    HostRaw(fsAtStart, req.down, R_PACKAGES[ReqPackage].repo,
            R_PACKAGES[ReqPackage].branch, R_PACKAGES[ReqPackage].readmePath)

\* C13: the remote file read turns a success response into the file's text,
\* a 404 response into a not-found error that names the path, and any other
\* response into a transport error that carries the response's status code
\* and its message.
C13_FetchErrorsTyped ==
    (Handled("remote", "get_package_docs") /\ ReqPackage # 0)
    => IF ReadmeResponse.status = 200
       THEN ~resp.isError /\ resp.text.body = ReadmeResponse.body
       ELSE IF ReadmeResponse.status = 404
       THEN /\ resp.isError
            /\ Includes(resp.text.message, "not found")
            /\ Includes(resp.text.message, R_PACKAGES[ReqPackage].readmePath)
       ELSE /\ resp.isError
            /\ Includes(resp.text.message, ReadmeResponse.statusText)
            /\ Includes(resp.text.message, Decimal(ReadmeResponse.status))

\* The number of sub-fetches started and not yet settled after the first k
\* entries of the call log io (a synchronous read is never outstanding).
Outstanding(io, k) ==
    Cardinality({j \in 1..k : io[j][1] = "fetchRawFile"})
    - Cardinality({j \in 1..k : io[j][1] = "settled"})

\* C14: the aggregations (get_package_types on the package without a types
\* file, search_source with scope "all") run their sub-fetches one after the
\* other in registry order: at most one sub-fetch is outstanding at any time.
C14_SubFetchesSequential ==
    (/\ pc = "done"
     /\ \/ req.op = "get_package_types" /\ ReqPackage # 0
           /\ Falsy(L_PACKAGES[ReqPackage].typesPath)
        \/ req.op = "search_source" /\ req.packageId = "all")
    => \A k \in 1..Len(resp.io) : Outstanding(resp.io, k) <= 1

\* The lines of one file that the compiled pattern nodes matches, each tested
\* on its own from the start of the line, as matches.
MatchesInFile(nodes, id, file, lines) ==
    LET F[i \in 0..Len(lines)] ==
            IF i = 0 THEN <<>>
            ELSE IF RegexTest(nodes, lines[i], 0).found
            THEN Append(F[i - 1], [pkg |-> id, file |-> file, line |-> i,
                                   content |-> Trim(lines[i])])
            ELSE F[i - 1]
    IN  F[Len(lines)]

\* The matches in the source files of package pkg, in listing order.
MatchesInPackage(t, tRead, nodes, pkg, files) ==
    LET G[k \in 0..Len(files)] ==
            IF k = 0 THEN <<>>
            ELSE G[k - 1] \o MatchesInFile(nodes, pkg.id, files[k],
                                           LinesAt(tRead, pkg.dir \o "/" \o files[k]))
    IN  G[Len(files)]

\* Every match in the packages pkgs with no cap, in registry order.
AllMatches(t, tRead, nodes, pkgs) ==
    LET H[k \in 0..Len(pkgs)] ==
            IF k = 0 THEN <<>>
            ELSE H[k - 1] \o MatchesInPackage(t, tRead, nodes, pkgs[k],
                                 collectSourceFiles(t, pkgs[k].dir, pkgs[k].dir).files)
    IN  H[Len(pkgs)]

\* C15: the matches of a local search_source are the first maxResults of
\* the sequence of all matches taken in discovery order (by package in
\* registry order, then by file in enumeration order, then by line).
C15_MatchesArePrefix ==
    (/\ Handled("local", "search_source")
     /\ Len(SearchedPackages) > 0
     /\ ~resp.threw)
    => resp.text.matches =
           Take(AllMatches(fsAtStart, fs, CompilePattern(req.pattern), SearchedPackages),
                req.maxResults)

\* A search of every package was cut by the cap: the matches returned come
\* from two files, and a later match was left out.
C15_Witness_CutByCap ==
    /\ Handled("local", "search_source")
    /\ req.packageId = "all"
    /\ ~resp.threw
    /\ req.maxResults >= 2
    /\ Len(resp.text.matches) = req.maxResults
    /\ resp.text.matches[1].file # resp.text.matches[req.maxResults].file
    /\ Len(AllMatches(fsAtStart, fs, CompilePattern(req.pattern), SearchedPackages))
           > req.maxResults

\* The directory of the package of the local registry whose id is id.
DirOfPackage(id) == L_PACKAGES[L_findPackage(id)].dir

\* Whether the handled search did nothing after the cap-reaching match: the
\* last line tested is the last match, and the last file-system call is the
\* read of its file.
StoppedAtLastMatch(matches, tested, io) ==
    LET m == matches[Len(matches)]
    IN  /\ tested[Len(tested)] = <<m.pkg, m.file, m.line>>
        /\ io[Len(io)] = <<"readFileSync", join(DirOfPackage(m.pkg), m.file)>>

MatchesAt(matches, e) ==
    {j \in 1..Len(matches) : <<matches[j].pkg, matches[j].file, matches[j].line>> = e}

\* Whether the tested line e, whose text is line, got what a test of that
\* line alone gives: one match with the trimmed text when the pattern matches
\* somewhere in the line, none when it does not.
LineOutcomeRight(nodes, matches, e, line) ==
    IF RegexTest(nodes, line, 0).found
    THEN /\ Cardinality(MatchesAt(matches, e)) = 1
         /\ \A j \in MatchesAt(matches, e) : matches[j].content = Trim(line)
    ELSE MatchesAt(matches, e) = {}

\* C17: every line the local search tested yields exactly one match with its
\* 1-based number and trimmed text when the pattern matches it, and none
\* when it does not, whatever lines were tested before it.
C17_OneMatchPerMatchingLine ==
    (Handled("local", "search_source") /\ Len(SearchedPackages) > 0 /\ ~resp.threw)
    => \A k \in 1..Len(resp.text.tested) :
           LET e == resp.text.tested[k]
               lines == LinesAt(fs, DirOfPackage(e[1]) \o "/" \o e[2])
           IN  /\ e[3] \in 1..Len(lines)
               /\ LineOutcomeRight(CompilePattern(req.pattern), resp.text.matches,
                                   e, lines[e[3]])

\* A search tested a line that holds the pattern twice and reported it once,
\* right after a matching line, and tested a line that does not match.
C17_Witness_TwoOccurrences ==
    /\ Handled("local", "search_source")
    /\ req.pattern = "a*a"
    /\ req.packageId = "react-form"
    /\ ~resp.threw
    /\ \E j \in 2..Len(resp.text.matches) :
           /\ resp.text.matches[j].content = "let b = a*a("
           /\ resp.text.matches[j].line = 2
           /\ resp.text.matches[j - 1].file = resp.text.matches[j].file
    /\ Len(resp.text.tested) > Len(resp.text.matches)

\* The files the handled local search tried to read and could not: the
\* locations of its readFileSync calls that are no readable file of the tree.
FailedReads(t, io) ==
    {io[k][2] : k \in {j \in 1..Len(io) :
                          io[j][1] = "readFileSync" /\ ~readFileSync(t, io[j][2]).ok}}

\* Location of match m.
MatchPath(m) == DirOfPackage(m.pkg) \o "/" \o m.file

\* Whether an enumeration of a directory failed during the handled request.
EnumerationFailed(t, io) ==
    \E k \in 1..Len(io) : io[k][1] = "readdirSync" /\ ~readdirSync(t, io[k][2]).ok

\* C18: a local search whose enumeration of the files did not fail is never
\* a failure because a file could not be read: the file contributes no
\* match, and the matches of the readable files before and after it are all
\* there.
C18_UnreadableFileSkipped ==
    (/\ Handled("local", "search_source")
     /\ Len(SearchedPackages) > 0
     /\ ~EnumerationFailed(fsAtStart, resp.io)
     /\ FailedReads(fs, resp.io) # {})
    => /\ ~resp.threw
       /\ ~resp.isError
       /\ \A j \in 1..Len(resp.text.matches) :
              MatchPath(resp.text.matches[j]) \notin FailedReads(fs, resp.io)
       /\ resp.text.matches =
              Take(AllMatches(fsAtStart, fs, CompilePattern(req.pattern), SearchedPackages),
                   req.maxResults)

\* A file was deleted between the enumeration and its read; the search kept
\* a match found before it and found one in a file read after it.
C18_Witness_DeletedMidScan ==
    /\ Handled("local", "search_source")
    /\ req.packageId = "all"
    /\ ~resp.threw
    /\ ~resp.isError
    /\ fs # fsAtStart
    /\ \E k \in 2..(Len(resp.io) - 1) :
           /\ resp.io[k][1] = "readFileSync"
           /\ resp.io[k][2] \in FailedReads(fs, resp.io)
           /\ \E a \in 1..(k - 1), b \in (k + 1)..Len(resp.io) :
                  /\ resp.io[a][1] = "readFileSync" /\ resp.io[b][1] = "readFileSync"
                  /\ \E i, j \in 1..Len(resp.text.matches) :
                         /\ i < j
                         /\ MatchPath(resp.text.matches[i]) = resp.io[a][2]
                         /\ MatchPath(resp.text.matches[j]) = resp.io[b][2]

\* C19: every step that handles a request ends it with one envelope, success
\* or error (the handler returns, it does not throw), and a request refused
\* at validation (unknown package) has not touched the content source.
C19_OneEnvelopePerRequest ==
    [][(pc = "idle" /\ pc' = "done")
       => /\ ~resp'.threw
          /\ resp'.isError \in BOOLEAN
          /\ (resp'.text.tpl = "PackageNotFound" => resp'.io = <<>>)]_vars

=============================================================================
